---- MODULE Spec2Model ----
(***************************************************************************)
(* Model of cftool's Deployer (internal/deployer.go): one run of Deploy    *)
(* against a remote CloudFormation stack, with the change-set polling loop *)
(* (createChangeSet) and the stack monitoring loop (monitorStackUpdate).   *)
(*                                                                         *)
(* Status strings are modelled as the sequence of their "_"-separated      *)
(* words, so that strings.HasSuffix(s, "_COMPLETE") is a computation on    *)
(* the text and not a table lookup.  Error texts are modelled as the       *)
(* sequence of their ": "-separated parts, so that errors.Wrap and         *)
(* strings.Contains are computations too.  The nil error is <<>>.          *)
(***************************************************************************)
EXTENDS Integers, Sequences, FiniteSets, TLC

\* ------------------------------------------------------------------ bounds
\* Largest number of polls of one polling loop that the model follows.
MaxPolls == 3

\* Longest change list, and longest detail list of one change, formatted.
MaxChanges == 2

MaxDetails == 1

\* The number of polls of the monitoring loop followed when the loop is
\* examined by itself.
MaxMonitorPolls == 7

\* The number of stack events the service holds, one of them older than
\* the run.
MaxEvents == 3

\* ------------------------------------------------------------ error texts
NilErr == <<>>

ErrAbortedByUser == <<"aborted by user">>

DoesNotExistText == "does not exist"

NoChangesText == "The submitted information didn't contain changes"

\* strings.Contains(err.Error(), text)
Contains(err, text) == \E k \in DOMAIN err : err[k] = text

\* errors.Wrap / errors.Wrapf: nil stays nil, otherwise "label: err"
Wrap(err, label) == IF err = NilErr THEN NilErr ELSE <<label>> \o err

\* errors.Errorf("failed to create change set: %s", reason)
Errorf(label, arg) == <<label>> \o arg

\* Error texts the remote API answers with.
RequestError == <<"RequestError", "send request failed">>

StackMissingError ==
    <<"ValidationError", "Stack with id StackName", DoesNotExistText>>

NoChangesError == <<"ValidationError", NoChangesText>>

\* -------------------------------------------------------------- statuses
NoStack == <<>>

NilStack == <<>>

Unknown == <<"UNKNOWN">>

ReviewInProgress == <<"REVIEW", "IN", "PROGRESS">>

CreateInProgress == <<"CREATE", "IN", "PROGRESS">>

CreateComplete == <<"CREATE", "COMPLETE">>

CreateFailed == <<"CREATE", "FAILED">>

RollbackInProgress == <<"ROLLBACK", "IN", "PROGRESS">>

RollbackComplete == <<"ROLLBACK", "COMPLETE">>

RollbackFailed == <<"ROLLBACK", "FAILED">>

UpdateInProgress == <<"UPDATE", "IN", "PROGRESS">>

UpdateComplete == <<"UPDATE", "COMPLETE">>

UpdateRollbackInProgress == <<"UPDATE", "ROLLBACK", "IN", "PROGRESS">>

UpdateRollbackComplete == <<"UPDATE", "ROLLBACK", "COMPLETE">>

UpdateRollbackFailed == <<"UPDATE", "ROLLBACK", "FAILED">>

DeleteInProgress == <<"DELETE", "IN", "PROGRESS">>

DeleteComplete == <<"DELETE", "COMPLETE">>

DeleteFailed == <<"DELETE", "FAILED">>

\* strings.HasSuffix(s, "_" + suffix words): the words of the suffix are the
\* last words of s and at least one "_" precedes them.
HasSuffix(s, suffix) ==
    /\ Len(s) > Len(suffix)
    /\ SubSeq(s, Len(s) - Len(suffix) + 1, Len(s)) = suffix

IsComplete(status) == HasSuffix(status, <<"COMPLETE">>)

IsFailed(status) == HasSuffix(status, <<"FAILED">>)

IsTerminal_CompleteOnly(status) == IsComplete(status)

IsTerminal(status) == IsComplete(status) \/ IsFailed(status)

\* ------------------------------------------------------------------ state
VARIABLES
    pc,          \* position of Deploy
    protected,   \* Deployment.Protected
    showDiff,    \* Deployer.ShowDiff
    exists,      \* Deploy's local: result of the existence check
    nochange,    \* Deploy's local
    chset,       \* Deploy's local: the described change set, or NilChset
    result,      \* the error Deploy returned (NilErr for nil)
    calls,       \* the remote calls issued so far, in order
    prompts,     \* the prompts shown so far, with their answers
    remote,      \* the stack's status at the remote service (NoStack: none)
    visible,     \* the status that DescribeStacks currently reports
    csStatus,    \* status of the last DescribeChangeSet response
    csPolls,     \* iterations of the change-set polling loop so far
    stack,       \* monitorStackUpdate's stack: status of the last poll
    lastStatus,  \* monitorStackUpdate's local
    i,           \* monitorStackUpdate's loop counter
    polls,       \* iterations of the current monitoring loop so far
    polled,      \* the statuses polled by the current monitoring loop
    describeErr, \* the error describeStack gave the existence check
    createErr,   \* the error createChangeSet returned to Deploy
    rendered,    \* the lines pprint.ChangeSet wrote
    changeSetName, \* Deployer.ChangeSetName
    csResp,      \* the last DescribeChangeSet response
    faults,      \* the remote calls that failed or answered without a stack
    clock,       \* time.Now()
    startTime,   \* monitorStackUpdate's parameter
    since,       \* monitorStackUpdate's local: start of the event window
    sleeps,      \* the sleeps of the current monitoring loop
    announced,   \* the statuses the current monitoring loop announced
    fetched,     \* the event windows the current monitoring loop fetched
    printed,     \* the events the current monitoring loop printed
    events,      \* the stack events at the remote service
    budget       \* the number of polls of one loop that the model follows

vars == <<pc, protected, showDiff, exists, nochange, chset, result, calls,
          prompts, remote, visible, csStatus, csPolls, stack, lastStatus, i,
          polls, polled, describeErr, createErr, rendered, changeSetName,
          csResp, faults, clock, startTime, since, sleeps, announced, fetched,
          printed, events, budget>>

NilChset == [status |-> "nil", changes |-> <<>>]

\* No DescribeChangeSet response yet.
NoResponse == [err |-> NilErr, status |-> "none", reason |-> <<>>,
               changes |-> <<>>]

\* The reading of the clock when Deploy starts.
StartTime == 1

InitialStatuses == {NoStack, CreateComplete, UpdateRollbackComplete}

Init ==
    /\ pc = "stackExists"
    /\ protected \in BOOLEAN
    /\ showDiff \in BOOLEAN
    /\ exists = FALSE
    /\ nochange = FALSE
    /\ chset = NilChset
    /\ result = NilErr
    /\ calls = <<>>
    /\ prompts = <<>>
    /\ remote \in InitialStatuses
    /\ visible = remote
    /\ csStatus = "none"
    /\ csPolls = 0
    /\ stack = NilStack
    /\ lastStatus = Unknown
    /\ i = 0
    /\ polls = 0
    /\ polled = <<>>
    /\ describeErr = NilErr
    /\ createErr = NilErr
    /\ rendered = <<>>
    /\ changeSetName = ""
    /\ csResp = NoResponse
    /\ faults = <<>>
    /\ clock = StartTime
    /\ startTime = StartTime
    /\ since = StartTime
    /\ sleeps = <<>>
    /\ announced = <<>>
    /\ fetched = <<>>
    /\ printed = <<>>
    /\ events = <<>>
    /\ budget = MaxPolls

\* ------------------------------------------------------- remote responses
\* What DescribeStacks can answer while the service reports status vis.
DescribeStacksResponses(vis) ==
    (IF vis = NoStack
        THEN {[stacks |-> <<>>, err |-> StackMissingError]}
        ELSE {[stacks |-> <<vis>>, err |-> NilErr]})
    \cup {[stacks |-> <<>>, err |-> RequestError],
          [stacks |-> <<>>, err |-> NilErr]}

\* Deployer.describeStack
describeStack(resp) ==
    IF resp.err # NilErr
        THEN [stack |-> NilStack, found |-> FALSE,
              err |-> Wrap(resp.err, "describe stack StackName")]
    ELSE IF Len(resp.stacks) # 1
        THEN [stack |-> NilStack, found |-> FALSE,
              err |-> Wrap(resp.err, "stack StackName not found")]
    ELSE [stack |-> resp.stacks[1], found |-> TRUE, err |-> NilErr]

IsDoesNotExist_AnyError(err) == TRUE

IsDoesNotExist(err) == Contains(err, DoesNotExistText)

\* Deployer.stackExists
stackExists(resp) ==
    LET d == describeStack(resp) IN
    IF d.err # NilErr
        THEN IF IsDoesNotExist(d.err)
                THEN [exists |-> FALSE, err |-> NilErr]
                ELSE [exists |-> FALSE, err |-> d.err]
        ELSE [exists |-> TRUE, err |-> d.err]

\* A remote call: the API operation and the function that issues it.
RemoteCall(api, from) == [api |-> api, from |-> from, name |-> "StackName"]

Call(api, from) == calls' = Append(calls, RemoteCall(api, from))

Prompt(name, answer) ==
    prompts' = Append(prompts, [name |-> name, answer |-> answer,
                                at |-> Len(calls)])

Return(err) == pc' = "done" /\ result' = err

\* ------------------------------------------- change description formatter
\* One line of output: its indentation and its words.
Line(indent, words) == [indent |-> indent, words |-> words]

BlankLine == Line(0, <<>>)

Annotation(recreation) ==
    IF recreation = "Conditionally" THEN <<"(conditional replacement)">>
    ELSE IF recreation = "Always" THEN <<"(forces replacement)">>
    ELSE <<>>

DetailLine(detail) ==
    Line(4, <<"Change:", detail.attribute, ".", detail.name, "<- !GetAtt",
              detail.causing>> \o Annotation(detail.recreation))

DetailLines(details) == [k \in DOMAIN details |-> DetailLine(details[k])]

ChangeLines_NoRemovalLine(change) ==
    IF change.action = "Add"
        THEN <<Line(0, <<"+", change.type, change.id>>)>>
    ELSE IF change.replacement = "True"
        THEN <<Line(0, <<"+", change.type, change.id>>)>>
             \o (IF change.physical # ""
                    THEN <<Line(2, <<"Resource:", change.physical>>)>>
                    ELSE <<>>)
    ELSE <<Line(0, <<"~", change.type, change.id>>)>>
         \o DetailLines(change.details)

ChangeLines(change) ==
    IF change.action = "Add"
        THEN <<Line(0, <<"+", change.type, change.id>>)>>
    ELSE IF change.replacement = "True"
        THEN <<Line(0, <<"-", change.type, change.id>>),
               Line(0, <<"+", change.type, change.id>>)>>
             \o (IF change.physical # ""
                    THEN <<Line(2, <<"Resource:", change.physical>>)>>
                    ELSE <<>>)
    ELSE <<Line(0, <<"~", change.type, change.id>>)>>
         \o DetailLines(change.details)

RECURSIVE ChangeSetLines(_)
ChangeSetLines(changes) ==
    IF changes = <<>> THEN <<>>
    ELSE <<BlankLine>> \o ChangeLines(Head(changes))
         \o ChangeSetLines(Tail(changes))

\* The change set of TestPPrintChangeSet.
TestDetail ==
    [attribute |-> "MyAtt", name |-> "MyProperty", causing |-> "MyProp",
     recreation |-> "Conditionally"]

TestAdd ==
    [action |-> "Add", replacement |-> "False", type |-> "AWS::Resource",
     id |-> "MyResource", physical |-> "", details |-> <<>>]

TestModify ==
    [action |-> "Modify", replacement |-> "False",
     type |-> "AWS::ModifiedResource", id |-> "MyResource", physical |-> "",
     details |-> <<TestDetail>>]

TestReplace ==
    [action |-> "Modify", replacement |-> "True",
     type |-> "AWS::ReplacedResource", id |-> "MyResource",
     physical |-> "PhysicalId", details |-> <<>>]

TestChangeSet == <<TestAdd, TestModify, TestReplace>>

\* The output TestPPrintChangeSet expects for it.
TestExpect ==
    <<BlankLine,
      Line(0, <<"+", "AWS::Resource", "MyResource">>),
      BlankLine,
      Line(0, <<"~", "AWS::ModifiedResource", "MyResource">>),
      Line(4, <<"Change:", "MyAtt", ".", "MyProperty", "<- !GetAtt", "MyProp",
                "(conditional replacement)">>),
      BlankLine,
      Line(0, <<"-", "AWS::ReplacedResource", "MyResource">>),
      Line(0, <<"+", "AWS::ReplacedResource", "MyResource">>),
      Line(2, <<"Resource:", "PhysicalId">>)>>

\* The change lists DescribeChangeSet answers with in a run of Deploy.
DescribedChanges == {<<TestAdd>>, TestChangeSet}

\* The changes and change lists the formatter is applied to.
SeqsUpTo(S, n) == UNION {[1..m -> S] : m \in 0..n}

Details ==
    {[attribute |-> "MyAtt", name |-> "MyProperty", causing |-> "MyProp",
      recreation |-> r] : r \in {"Never", "Conditionally", "Always"}}

ResourceIds == {"MyResource", "Other"}

Changes ==
    {[action |-> "Add", replacement |-> "False", type |-> "AWS::Resource",
      id |-> id, physical |-> "", details |-> <<>>] : id \in ResourceIds}
    \cup {[action |-> "Modify", replacement |-> "False",
           type |-> "AWS::Resource", id |-> id, physical |-> "",
           details |-> ds] :
             id \in ResourceIds, ds \in SeqsUpTo(Details, MaxDetails)}
    \cup {[action |-> "Modify", replacement |-> "True",
           type |-> "AWS::Resource", id |-> id, physical |-> ph,
           details |-> <<>>] :
             id \in ResourceIds, ph \in {"", "PhysicalId"}}

FormatInputs == SeqsUpTo(Changes, MaxChanges) \cup {TestChangeSet}

\* ------------------------------------------------------------------ Deploy
deployLocals == <<exists, nochange, chset, describeErr, createErr,
                  changeSetName>>

monitorLocals == <<stack, lastStatus, i, polls, polled, startTime, since,
                   sleeps, announced, fetched, printed>>

config == <<protected, showDiff, budget>>

service == <<remote, visible>>

\* The record of a remote call that failed (err) or that answered without
\* error and without a stack (empty): the call is the last one issued.
Fault(err, empty) == [at |-> Len(calls'), err |-> err, empty |-> empty]

Failed(err) ==
    faults' = IF err = NilErr THEN faults
              ELSE Append(faults, Fault(err, FALSE))

Answered(resp) ==
    faults' = IF resp.err # NilErr
                 THEN Append(faults, Fault(resp.err, FALSE))
              ELSE IF Len(resp.stacks) # 1
                 THEN Append(faults, Fault(NilErr, TRUE))
              ELSE faults

ShowsDiff_WhenAsked(ex) == showDiff

\* Deploy, line 65
ShowsDiff(ex) == ex /\ showDiff

\* Deploy, lines 65-73: the step after the existence check and its prompt.
AfterExistence(ex) ==
    IF ShowsDiff(ex) THEN "templateDiff" ELSE "createChangeSet"

\* Deploy, lines 54-63 (first half): the existence check.
StackExists ==
    /\ pc = "stackExists"
    /\ \E resp \in DescribeStacksResponses(visible) :
         LET r == stackExists(resp) IN
         /\ Call("DescribeStacks", "stackExists")
         /\ Answered(resp)
         /\ exists' = r.exists
         /\ describeErr' = describeStack(resp).err
         /\ IF r.err # NilErr
               THEN Return(Wrap(r.err, "describe stack StackName"))
               ELSE /\ result' = result
                    /\ pc' = IF ~r.exists THEN "confirmCreate"
                             ELSE AfterExistence(r.exists)
    /\ UNCHANGED <<config, events, clock, csResp, nochange, chset, createErr,
                   changeSetName, prompts, service, csStatus, csPolls,
                   monitorLocals, rendered>>

ConfirmCreate_Continue ==
    /\ pc = "confirmCreate"
    /\ \E answer \in BOOLEAN :
         /\ Prompt("create", answer)
         /\ pc' = AfterExistence(exists)
         /\ result' = result
    /\ UNCHANGED <<config, events, clock, csResp, faults, deployLocals, calls,
                   service, csStatus, csPolls, monitorLocals, rendered>>

\* Deploy, lines 59-63: the create prompt.
ConfirmCreate ==
    /\ pc = "confirmCreate"
    /\ \E answer \in BOOLEAN :
         /\ Prompt("create", answer)
         /\ IF ~answer
               THEN Return(ErrAbortedByUser)
               ELSE pc' = AfterExistence(exists) /\ result' = result
    /\ UNCHANGED <<config, events, clock, csResp, faults, deployLocals, calls,
                   service, csStatus, csPolls, monitorLocals, rendered>>

\* Deploy, lines 65-70, with TemplateDiff: a second existence check, then
\* GetTemplate; the diff itself is computed locally.
TemplateDiff ==
    /\ pc = "templateDiff"
    /\ \E resp \in DescribeStacksResponses(visible),
          terr \in {NilErr, RequestError} :
         LET r == stackExists(resp) IN
         IF r.err # NilErr
            THEN /\ Call("DescribeStacks", "TemplateDiff")
                 /\ Answered(resp)
                 /\ Return(Wrap(Wrap(r.err, "describe stack StackName"),
                                "template diff"))
         ELSE IF ~r.exists
            THEN /\ Call("DescribeStacks", "TemplateDiff")
                 /\ Answered(resp)
                 /\ Return(<<"template diff",
                             "stack StackName does not exist.">>)
         ELSE /\ calls' = calls \o
                        <<RemoteCall("DescribeStacks", "TemplateDiff"),
                          RemoteCall("GetTemplate", "TemplateDiff")>>
              /\ faults' = faults
                     \o (IF Len(resp.stacks) # 1
                         THEN <<[at |-> Len(calls) + 1, err |-> NilErr,
                                 empty |-> TRUE]>>
                         ELSE <<>>)
                     \o (IF terr # NilErr
                         THEN <<[at |-> Len(calls) + 2, err |-> terr,
                                 empty |-> FALSE]>>
                         ELSE <<>>)
              /\ IF terr # NilErr
                    THEN Return(Wrap(Wrap(terr, "get template"),
                                     "template diff"))
                    ELSE pc' = "createChangeSet" /\ result' = result
    /\ UNCHANGED <<config, events, clock, csResp, deployLocals, prompts,
                   service, csStatus, csPolls, monitorLocals, rendered>>

IsNoChange_Never(err) == FALSE

\* Deploy, line 75
IsNoChange(err) == Contains(err, NoChangesText)

\* Deploy, lines 73-84, for a createChangeSet that returned (nil, err).
CreateChangeSetFailed(err) ==
    /\ createErr' = err
    /\ IF IsNoChange(err)
          THEN /\ nochange' = TRUE
               /\ pc' = "outputs"
               /\ result' = result
          ELSE /\ nochange' = nochange
               /\ Return(Wrap(err, "create change set"))

\* createChangeSet, line 183: "StackUpdate-" + uuid.New().String()
NewChangeSetName == "StackUpdate-uuid"

\* A remote call about a change set of the stack.
ChangeSetCall(api, from, name) == [api |-> api, from |-> from, name |-> name]

\* createChangeSet, lines 177-210: the CreateChangeSet call.
CreateChangeSet ==
    /\ pc = "createChangeSet"
    /\ changeSetName' = NewChangeSetName
    /\ calls' = Append(calls, ChangeSetCall("CreateChangeSet",
                                            "createChangeSet",
                                            changeSetName'))
    /\ \E err \in {NilErr, RequestError, NoChangesError} :
         /\ Failed(err)
         /\ IF err # NilErr
               THEN /\ CreateChangeSetFailed(err)
                    /\ remote' = remote
               ELSE /\ pc' = "pollChangeSet"
                    /\ remote' = IF remote = NoStack THEN ReviewInProgress
                                 ELSE remote
                    /\ UNCHANGED <<nochange, result, createErr>>
    /\ UNCHANGED <<config, events, clock, csResp, exists, chset, describeErr,
                   prompts, visible, csStatus, csPolls, monitorLocals,
                   rendered>>

ChangeSetStatuses ==
    {"CREATE_PENDING", "CREATE_IN_PROGRESS", "CREATE_COMPLETE",
     "DELETE_COMPLETE", "FAILED"}

FailureReasons == {<<NoChangesText>>, <<"Template error">>}

\* What DescribeChangeSet can answer.
DescribeChangeSetResponses ==
    {[err |-> RequestError, status |-> "none", reason |-> <<>>,
      changes |-> <<>>]}
    \cup {[err |-> NilErr, status |-> st, reason |-> <<>>, changes |-> <<>>] :
            st \in ChangeSetStatuses \ {"CREATE_COMPLETE", "FAILED"}}
    \cup {[err |-> NilErr, status |-> "FAILED", reason |-> r,
           changes |-> <<>>] : r \in FailureReasons}
    \cup {[err |-> NilErr, status |-> "CREATE_COMPLETE", reason |-> <<>>,
           changes |-> c] : c \in DescribedChanges}

\* createChangeSet, line 217
ChangeSetInterval == 2

ChangeSetDone_NotFailed(status) == status # "FAILED"

\* createChangeSet, lines 228-230
ChangeSetDone(status) == status = "CREATE_COMPLETE"

ChangeSetRemoved_Never(status) == FALSE

\* createChangeSet, lines 235-236
ChangeSetRemoved(status) == status = "DELETE_COMPLETE"

\* createChangeSet, lines 214-241: one iteration of the polling loop.
PollChangeSet ==
    /\ pc = "pollChangeSet"
    /\ csPolls < budget
    /\ csPolls' = csPolls + 1
    /\ clock' = clock + ChangeSetInterval
    /\ calls' = Append(calls, ChangeSetCall("DescribeChangeSet",
                                            "createChangeSet", changeSetName))
    /\ \E resp \in DescribeChangeSetResponses :
         /\ csResp' = resp
         /\ Failed(resp.err)
         /\ IF resp.err # NilErr
               THEN /\ CreateChangeSetFailed(
                         Wrap(resp.err, "describe change set"))
                    /\ UNCHANGED <<csStatus, chset>>
               ELSE /\ csStatus' = resp.status
                    /\ IF ChangeSetDone(resp.status)
                          THEN /\ chset' = [status |-> resp.status,
                                            changes |-> resp.changes,
                                            name |-> changeSetName]
                               /\ pc' = "review"
                               /\ UNCHANGED <<nochange, result, createErr>>
                       ELSE IF resp.status = "FAILED"
                          THEN /\ CreateChangeSetFailed(
                                    Errorf("failed to create change set",
                                           resp.reason))
                               /\ chset' = chset
                       ELSE IF ChangeSetRemoved(resp.status)
                          THEN /\ CreateChangeSetFailed(
                                    <<"change set removed unexpectedly">>)
                               /\ chset' = chset
                       ELSE UNCHANGED <<pc, nochange, result, chset,
                                        createErr>>
    /\ UNCHANGED <<config, events, exists, describeErr, changeSetName,
                   prompts, service, monitorLocals, rendered>>

NeedsConfirmation_Never == FALSE

\* Deploy, line 87: d.Protected
NeedsConfirmation == protected

\* Deploy, lines 85-93: print the change set, then the execute prompt.
Review ==
    /\ pc = "review"
    /\ rendered' = ChangeSetLines(chset.changes)
    /\ IF NeedsConfirmation
          THEN \E answer \in BOOLEAN :
                 /\ Prompt("execute", answer)
                 /\ IF ~answer
                       THEN Return(ErrAbortedByUser)
                       ELSE IF chset = NilChset
                          THEN Return(<<"expected non-nil chset">>)
                          ELSE pc' = "execute" /\ result' = result
          ELSE /\ prompts' = prompts
               /\ IF chset = NilChset
                     THEN Return(<<"expected non-nil chset">>)
                     ELSE pc' = "execute" /\ result' = result
    /\ UNCHANGED <<config, events, clock, csResp, faults, deployLocals, calls,
                   service, csStatus, csPolls, monitorLocals>>

\* The status an accepted ExecuteChangeSet puts the stack in.
Executing(status) ==
    IF status = ReviewInProgress THEN CreateInProgress ELSE UpdateInProgress

\* monitorStackUpdate, lines 278-279: the locals at entry; startTime is the
\* caller's time.Now() (Deploy, lines 95 and 122).
EnterMonitor ==
    /\ stack' = NilStack
    /\ lastStatus' = Unknown
    /\ i' = 0
    /\ polls' = 0
    /\ polled' = <<>>
    /\ startTime' = clock
    /\ since' = startTime'
    /\ sleeps' = <<>>
    /\ announced' = <<>>
    /\ fetched' = <<>>
    /\ printed' = <<>>

\* Deploy, lines 95-104: the time that passes between the reading of the
\* clock and the answer to ExecuteChangeSet.
RequestTime == 1

\* Deploy, lines 95-104: ExecuteChangeSet.
ExecuteChangeSet ==
    /\ pc = "execute"
    /\ clock' = clock + RequestTime
    /\ calls' = Append(calls, ChangeSetCall("ExecuteChangeSet", "Deploy",
                                            chset.name))
    /\ \E err \in {NilErr, RequestError} :
         /\ Failed(err)
         /\ IF err # NilErr
               THEN /\ Return(Wrap(err, "execute change set"))
                    /\ UNCHANGED <<remote, monitorLocals>>
               ELSE /\ pc' = "monitorUpdate"
                    /\ result' = result
                    /\ remote' = Executing(remote)
                    /\ EnterMonitor
    /\ UNCHANGED <<config, events, csResp, deployLocals, prompts, visible,
                   csStatus, csPolls, rendered>>

MustDelete_AnyRollback(status) ==
    ~exists /\ IsTerminal(status) /\ status[1] = "ROLLBACK"

\* Deploy, line 112
MustDelete(status) == ~exists /\ status = RollbackComplete

AfterMonitor_FailedIsError(status) ==
    IF pc = "monitorUpdate"
        THEN IF IsFailed(status)
                THEN Return(<<"stack update failed">>)
                ELSE /\ result' = result
                     /\ pc' = IF MustDelete(status)
                                 THEN "confirmDelete" ELSE "outputs"
        ELSE Return(NilErr)

\* Deploy, lines 106-131 and 122-128: what follows a monitorStackUpdate that
\* returned (stack, nil).
AfterMonitor(status) ==
    IF pc = "monitorUpdate"
        THEN /\ result' = result
             /\ pc' = IF MustDelete(status)
                         THEN "confirmDelete" ELSE "outputs"
        ELSE Return(NilErr)

MonitorLabel == IF pc = "monitorUpdate" THEN "monitor stack update"
                ELSE "monitor stack delete"

InWindow_Open(ts, from, until) == ts > from /\ ts < until

\* getStackEvents, lines 255-256
InWindow(ts, from, until) == ts >= from /\ ts < until

\* getStackEvents, lines 244-263, for a DescribeStackEvents that succeeded.
getStackEvents(from, until) ==
    SelectSeq(events, LAMBDA e : InWindow(e.at, from, until))

IsSurfaced_InProgress(status) ==
    IsFailed(status) \/ HasSuffix(status, <<"IN", "PROGRESS">>)

\* monitorStackUpdate, lines 303-304
IsSurfaced(status) ==
    \/ HasSuffix(status, <<"FAILED">>)
    \/ HasSuffix(status, <<"ROLLBACK", "IN", "PROGRESS">>)

\* monitorStackUpdate, line 327
ShortInterval == 2

\* monitorStackUpdate, line 323
LongInterval == 5

\* monitorStackUpdate, line 325
RapidPolls == 5

SleepTime_OneMore(n) ==
    IF n <= RapidPolls THEN ShortInterval ELSE LongInterval

\* monitorStackUpdate, lines 323-328
SleepTime(n) == IF n < RapidPolls THEN ShortInterval ELSE LongInterval

EventsFailed_Ignored(changed, err) == FALSE

\* monitorStackUpdate, lines 295-300
EventsFailed(changed, err) == changed /\ err # NilErr

StatusChanged_Always(status) == TRUE

\* monitorStackUpdate, line 293
StatusChanged(status) == status # lastStatus

\* monitorStackUpdate, lines 281-332: one iteration of the loop.
MonitorStep ==
    /\ pc \in {"monitorUpdate", "monitorDelete"}
    /\ polls < budget
    /\ polls' = polls + 1
    /\ \E resp \in DescribeStacksResponses(visible),
          everr \in {NilErr, RequestError} :
         LET d == describeStack(resp)
             status == d.stack
             changed == StatusChanged(status)
             window == getStackEvents(since, clock)
             n == IF changed THEN 0 ELSE i
         IN
         IF d.err # NilErr \/ ~d.found
            THEN /\ Call("DescribeStacks", "monitorStackUpdate")
                 /\ Answered(resp)
                 /\ Return(Wrap(IF d.err # NilErr THEN d.err
                                ELSE <<"unexpected nil stack">>,
                                MonitorLabel))
                 /\ stack' = NilStack
                 /\ UNCHANGED <<lastStatus, i, polled, startTime, since,
                                sleeps, announced, fetched, printed, clock>>
         ELSE /\ polled' = Append(polled, status)
              /\ calls' = calls
                     \o <<RemoteCall("DescribeStacks", "monitorStackUpdate")>>
                     \o (IF changed
                            THEN <<RemoteCall("DescribeStackEvents",
                                              "monitorStackUpdate")>>
                            ELSE <<>>)
              /\ Failed(IF changed THEN everr ELSE NilErr)
              /\ startTime' = startTime
              /\ since' = IF changed THEN clock ELSE since
              /\ IF EventsFailed(changed, everr)
                    THEN /\ Return(Wrap(Wrap(Wrap(everr,
                                "describe stack events"), "get stack events"),
                                MonitorLabel))
                         /\ stack' = NilStack
                         /\ UNCHANGED <<lastStatus, i, sleeps, announced,
                                        fetched, printed, clock>>
                    ELSE /\ stack' = status
                         /\ lastStatus' = status
                         /\ fetched' =
                              IF changed
                                 THEN Append(fetched,
                                             [poll |-> polls', from |-> since,
                                              until |-> clock,
                                              events |-> window])
                                 ELSE fetched
                         /\ printed' =
                              IF changed
                                 THEN printed \o SelectSeq(window,
                                        LAMBDA e : IsSurfaced(e.status))
                                 ELSE printed
                         /\ announced' = IF changed
                                            THEN Append(announced, status)
                                            ELSE announced
                         /\ IF IsTerminal(status)
                               THEN /\ AfterMonitor(status)
                                    /\ i' = n
                                    /\ UNCHANGED <<sleeps, clock>>
                               ELSE /\ UNCHANGED <<pc, result>>
                                    /\ i' = n + 1
                                    /\ sleeps' = Append(sleeps, SleepTime(n))
                                    /\ clock' = clock + SleepTime(n)
    /\ UNCHANGED <<config, events, csResp, deployLocals, prompts, service,
                   csStatus, csPolls, rendered>>

\* Deploy, lines 112-130: the delete prompt.
ConfirmDelete ==
    /\ pc = "confirmDelete"
    /\ \E answer \in BOOLEAN :
         /\ Prompt("delete", answer)
         /\ pc' = IF answer THEN "deleteStack" ELSE "outputs"
    /\ UNCHANGED <<config, events, clock, csResp, faults, deployLocals,
                   result, calls, service, csStatus, csPolls, monitorLocals,
                   rendered>>

\* Deploy, lines 114-122: DeleteStack.
DeleteStack ==
    /\ pc = "deleteStack"
    /\ Call("DeleteStack", "Deploy")
    /\ \E err \in {NilErr, RequestError} :
         /\ Failed(err)
         /\ IF err # NilErr
               THEN /\ Return(Wrap(err, "delete failed stack"))
                    /\ UNCHANGED <<remote, monitorLocals>>
               ELSE /\ pc' = "monitorDelete"
                    /\ result' = result
                    /\ remote' = DeleteInProgress
                    /\ EnterMonitor
    /\ UNCHANGED <<config, events, clock, csResp, deployLocals, prompts,
                   visible, csStatus, csPolls, rendered>>

\* Deploy, lines 133-146, with getStackOutputs.
GetStackOutputs ==
    /\ pc = "outputs"
    /\ Call("DescribeStacks", "getStackOutputs")
    /\ \E resp \in DescribeStacksResponses(visible) :
         /\ Answered(resp)
         /\ IF resp.err # NilErr
               THEN Return(Wrap(Wrap(resp.err, "describe stack"),
                                "get stack outputs"))
            ELSE IF Len(resp.stacks) = 0
               THEN pc' = "panic" /\ result' = result
            ELSE Return(NilErr)
    /\ UNCHANGED <<config, events, clock, csResp, deployLocals, prompts,
                   service, csStatus, csPolls, monitorLocals, rendered>>

\* ------------------------------------------------------ the remote service
\* The statuses a stack moves to by itself.
Successors(status) ==
    IF status = CreateInProgress
        THEN {CreateComplete, CreateFailed, RollbackInProgress}
    ELSE IF status = RollbackInProgress
        THEN {RollbackComplete, RollbackFailed}
    ELSE IF status = UpdateInProgress
        THEN {UpdateComplete, UpdateRollbackInProgress}
    ELSE IF status = UpdateRollbackInProgress
        THEN {UpdateRollbackComplete, UpdateRollbackFailed}
    ELSE IF status = DeleteInProgress
        THEN {DeleteComplete, DeleteFailed}
    ELSE IF status = DeleteComplete
        THEN {NoStack}
    ELSE {}

Running == pc \notin {"done", "panic"}

\* The stack operation in progress at the service advances.
RemoteProgress ==
    /\ Running
    /\ \E next \in Successors(remote) : remote' = next
    /\ UNCHANGED <<pc, config, events, clock, csResp, faults, deployLocals,
                   result, calls, prompts, visible, csStatus, csPolls,
                   monitorLocals, rendered>>

\* The service's describe endpoint catches up with the stack's status.
Propagate ==
    /\ Running
    /\ visible # remote
    /\ visible' = remote
    /\ UNCHANGED <<pc, config, events, clock, csResp, faults, deployLocals,
                   result, calls, prompts, remote, csStatus, csPolls,
                   monitorLocals, rendered>>

\* The resource statuses of the stack events the service records.
EventStatuses ==
    {<<"CREATE", "FAILED">>, <<"UPDATE", "ROLLBACK", "IN", "PROGRESS">>,
     <<"ROLLBACK", "IN", "PROGRESS">>, <<"UPDATE", "IN", "PROGRESS">>}

\* The service records a stack event, stamped with the current time.
EmitEvent ==
    /\ pc \in {"monitorUpdate", "monitorDelete"}
    /\ Len(events) < MaxEvents
    /\ \E status \in EventStatuses :
         events' = Append(events, [id |-> Len(events) + 1, at |-> clock,
                                   status |-> status])
    /\ UNCHANGED <<pc, config, clock, csResp, faults, deployLocals, result,
                   calls, prompts, service, csStatus, csPolls, monitorLocals,
                   rendered>>

Next ==
    \/ StackExists
    \/ ConfirmCreate
    \/ TemplateDiff
    \/ CreateChangeSet
    \/ PollChangeSet
    \/ Review
    \/ ExecuteChangeSet
    \/ MonitorStep
    \/ ConfirmDelete
    \/ DeleteStack
    \/ GetStackOutputs
    \/ RemoteProgress
    \/ Propagate

Spec == Init /\ [][Next]_vars

\* ------------------------------------- runs in which the service settles
\* The change set reports an end within the polls that are followed: the
\* last of them is answered with an error or with a status that
\* createChangeSet's switch names.
ChangeSetSettles ==
    csPolls' = budget =>
        \/ csResp'.err # NilErr
        \/ csResp'.status \in {"CREATE_COMPLETE", "FAILED", "DELETE_COMPLETE"}

\* The stack reports an end within the polls that are followed: the last
\* of them is answered with an error, without a stack, or with a status
\* whose text ends in "_COMPLETE" or "_FAILED".
StackSettles ==
    polls' = budget =>
        \/ faults' # faults
        \/ /\ polled' # polled
           /\ polled'[Len(polled')][Len(polled'[Len(polled')])]
                \in {"COMPLETE", "FAILED"}

LivePollChangeSet == PollChangeSet /\ ChangeSetSettles

LiveMonitorStep == MonitorStep /\ StackSettles

\* The steps of Deploy when the service settles.
LiveDeploy ==
    \/ StackExists
    \/ ConfirmCreate
    \/ TemplateDiff
    \/ CreateChangeSet
    \/ LivePollChangeSet
    \/ Review
    \/ ExecuteChangeSet
    \/ LiveMonitorStep
    \/ ConfirmDelete
    \/ DeleteStack
    \/ GetStackOutputs

LiveNext ==
    \/ LiveDeploy
    \/ RemoteProgress
    \/ Propagate

\* Deploy is a sequential program: it takes its next step whenever it has
\* one.
SpecLive == Init /\ [][LiveNext]_vars /\ WF_vars(LiveDeploy)

\* ------------------------------------------------- the formatter by itself
\* TestPPrintChangeSet, lines 76-81: the formatter applied to a change set.
FormatInit ==
    /\ pc = "format"
    /\ protected = FALSE
    /\ showDiff = FALSE
    /\ exists = FALSE
    /\ nochange = FALSE
    /\ chset \in {[status |-> "CREATE_COMPLETE", changes |-> c] :
                     c \in FormatInputs}
    /\ result = NilErr
    /\ calls = <<>>
    /\ prompts = <<>>
    /\ remote = NoStack
    /\ visible = NoStack
    /\ csStatus = "none"
    /\ csPolls = 0
    /\ stack = NilStack
    /\ lastStatus = Unknown
    /\ i = 0
    /\ polls = 0
    /\ polled = <<>>
    /\ describeErr = NilErr
    /\ createErr = NilErr
    /\ rendered = <<>>
    /\ changeSetName = ""
    /\ csResp = NoResponse
    /\ faults = <<>>
    /\ clock = StartTime
    /\ startTime = StartTime
    /\ since = StartTime
    /\ sleeps = <<>>
    /\ announced = <<>>
    /\ fetched = <<>>
    /\ printed = <<>>
    /\ events = <<>>
    /\ budget = MaxPolls

Format ==
    /\ pc = "format"
    /\ pc' = "formatted"
    /\ rendered' = ChangeSetLines(chset.changes)
    /\ UNCHANGED <<config, events, clock, csResp, faults, deployLocals,
                   result, calls, prompts, service, csStatus, csPolls,
                   monitorLocals>>

FormatNext == Format

SpecFormat == FormatInit /\ [][FormatNext]_vars

\* --------------------------------------------- the monitoring loop by itself
\* An event of an earlier operation on the stack.
OldEvent == [id |-> 1, at |-> 0, status |-> <<"UPDATE", "FAILED">>]

\* An event recorded while ExecuteChangeSet was being answered.
FirstEvent ==
    [id |-> 2, at |-> StartTime + ChangeSetInterval,
     status |-> <<"CREATE", "FAILED">>]

\* Deploy right after an accepted ExecuteChangeSet (line 106) that creates
\* the stack, reached through one poll of the change set.
MonitorInit ==
    /\ pc = "monitorUpdate"
    /\ protected = FALSE
    /\ showDiff = FALSE
    /\ exists = FALSE
    /\ nochange = FALSE
    /\ changeSetName = NewChangeSetName
    /\ chset = [status |-> "CREATE_COMPLETE", changes |-> <<TestAdd>>,
                name |-> changeSetName]
    /\ csResp = [err |-> NilErr, status |-> "CREATE_COMPLETE",
                 reason |-> <<>>, changes |-> <<TestAdd>>]
    /\ result = NilErr
    /\ calls = <<RemoteCall("DescribeStacks", "stackExists"),
                 ChangeSetCall("CreateChangeSet", "createChangeSet",
                               changeSetName),
                 ChangeSetCall("DescribeChangeSet", "createChangeSet",
                               changeSetName),
                 ChangeSetCall("ExecuteChangeSet", "Deploy", changeSetName)>>
    /\ prompts = IF exists THEN <<>>
                 ELSE <<[name |-> "create", answer |-> TRUE, at |-> 1]>>
    /\ remote = IF exists THEN UpdateInProgress ELSE CreateInProgress
    /\ visible = remote
    /\ csStatus = "CREATE_COMPLETE"
    /\ csPolls = 1
    /\ describeErr = IF exists THEN NilErr
                     ELSE Wrap(StackMissingError, "describe stack StackName")
    /\ createErr = NilErr
    /\ rendered = ChangeSetLines(chset.changes)
    /\ faults = IF exists THEN <<>>
                ELSE <<[at |-> 1, err |-> StackMissingError,
                        empty |-> FALSE]>>
    /\ startTime = StartTime + ChangeSetInterval
    /\ clock = startTime + RequestTime
    /\ events \in {<<OldEvent>>, <<OldEvent, FirstEvent>>}
    /\ budget = MaxMonitorPolls
    /\ stack = NilStack
    /\ lastStatus = Unknown
    /\ i = 0
    /\ polls = 0
    /\ polled = <<>>
    /\ since = startTime
    /\ sleeps = <<>>
    /\ announced = <<>>
    /\ fetched = <<>>
    /\ printed = <<>>

MonitorNext ==
    \/ MonitorStep
    \/ RemoteProgress
    \/ Propagate
    \/ EmitEvent

SpecMonitor == MonitorInit /\ [][MonitorNext]_vars

TypeOK ==
    /\ pc \in {"stackExists", "confirmCreate", "templateDiff",
               "createChangeSet", "pollChangeSet", "review", "execute",
               "monitorUpdate", "confirmDelete", "deleteStack",
               "monitorDelete", "outputs", "done", "panic", "format",
               "formatted"}
    /\ csPolls \in 0..budget
    /\ polls \in 0..budget
    /\ clock \in Nat
    /\ startTime \in StartTime..clock
    /\ since \in startTime..clock
    /\ Len(sleeps) <= polls
    /\ Len(announced) = Len(fetched)
    /\ Len(events) <= MaxEvents
    /\ \A k \in DOMAIN faults : faults[k].at \in DOMAIN calls

\* ------------------------------------------------------------- properties
Issued(api) == \E k \in DOMAIN calls : calls[k].api = api

IssuedBy(api, from) ==
    \E k \in DOMAIN calls : calls[k].api = api /\ calls[k].from = from

Shown(name) == \E k \in DOMAIN prompts : prompts[k].name = name

Confirmed(name) ==
    \E k \in DOMAIN prompts : prompts[k].name = name /\ prompts[k].answer

Declined(name) ==
    \E k \in DOMAIN prompts : prompts[k].name = name /\ ~prompts[k].answer

MutatingCalls == {"CreateChangeSet", "ExecuteChangeSet", "DeleteStack"}

\* The text of a status ends in "_COMPLETE" or in "_FAILED".
EndsInTerminalMarker(status) ==
    /\ Len(status) >= 2
    /\ status[Len(status)] \in {"COMPLETE", "FAILED"}

\* C1: ExecuteChangeSet is issued, or about to be issued, only after a
\* DescribeChangeSet poll of this run answered CREATE_COMPLETE and
\* createChangeSet returned that change set; never after a failed, deleted,
\* errored, no-op or otherwise unfinished change set.
C1_ExecuteOnlyUsableChangeSet ==
    (pc = "execute" \/ Issued("ExecuteChangeSet")) =>
        /\ csStatus = "CREATE_COMPLETE"
        /\ chset # NilChset
        /\ chset.status = "CREATE_COMPLETE"
        /\ createErr = NilErr
        /\ ~nochange
        /\ \E k \in DOMAIN calls :
             /\ calls[k].api = "DescribeChangeSet"
             /\ \A j \in DOMAIN calls :
                  calls[j].api = "ExecuteChangeSet" => k < j

C1_Witness == Issued("ExecuteChangeSet") /\ csPolls > 1

\* C2: once the create prompt has been declined, Deploy has returned
\* ErrAbortedByUser and the only remote call of the run is the DescribeStacks
\* of the existence check, which found no stack.
C2_DeclinedCreateIsCleanAbort ==
    Declined("create") =>
        /\ ~exists
        /\ pc = "done"
        /\ result = ErrAbortedByUser
        /\ \A k \in DOMAIN calls : calls[k].api \notin MutatingCalls
        /\ calls = <<RemoteCall("DescribeStacks", "stackExists")>>

C2_Witness == Declined("create") /\ pc = "done" /\ remote = NoStack

\* C3: a protected deployment executes only after the execute prompt was
\* confirmed, before the call; a declined execute prompt ends the run with
\* ErrAbortedByUser and without ExecuteChangeSet or DeleteStack; a deployment
\* that is not protected never sees the execute prompt and still executes.
C3_ProtectedNeedsConfirmation ==
    /\ (protected /\ (pc = "execute" \/ Issued("ExecuteChangeSet"))) =>
           \E k \in DOMAIN prompts :
              /\ prompts[k].name = "execute"
              /\ prompts[k].answer
              /\ \A j \in DOMAIN calls :
                   calls[j].api = "ExecuteChangeSet" => prompts[k].at < j
    /\ Declined("execute") =>
           /\ pc = "done"
           /\ result = ErrAbortedByUser
           /\ ~Issued("ExecuteChangeSet")
           /\ ~Issued("DeleteStack")
    /\ ~protected => ~Shown("execute")
    /\ (~protected /\ rendered # <<>>) =>
           (pc = "execute" \/ Issued("ExecuteChangeSet"))

C3_Witness ==
    protected /\ Confirmed("execute") /\ Issued("ExecuteChangeSet")

\* C4: when createChangeSet fails with a text that contains "The submitted
\* information didn't contain changes" (from the CreateChangeSet call or as
\* the reason of a FAILED change set), Deploy sets nochange, issues neither
\* ExecuteChangeSet nor DeleteStack, shows no execute prompt, goes straight
\* to the outputs fetch, and returns nil unless that fetch fails.
C4_NoChangesIsNoOp ==
    Contains(createErr, NoChangesText) =>
        /\ nochange
        /\ ~Issued("ExecuteChangeSet")
        /\ ~Issued("DeleteStack")
        /\ ~Shown("execute")
        /\ ~Shown("delete")
        /\ pc \in {"outputs", "done", "panic"}
        /\ pc = "outputs" =>
              calls[Len(calls)].from = "createChangeSet"
        /\ pc \in {"done", "panic"} =>
              /\ calls[Len(calls)].from = "getStackOutputs"
              /\ calls[Len(calls) - 1].from = "createChangeSet"
        /\ pc = "done" =>
              (result = NilErr \/ result[1] = "get stack outputs")

C4_Witness ==
    /\ csStatus = "FAILED"
    /\ Contains(createErr, NoChangesText)
    /\ pc = "done"
    /\ result = NilErr

\* The statuses in which a deletion has come to its end.
DeletionEnded == {DeleteComplete, DeleteFailed, NoStack}

\* C5: a run in which the stack did not exist, the executed change set left
\* it in ROLLBACK_COMPLETE and the delete prompt was confirmed has issued
\* DeleteStack and, when it returns nil, the deletion has come to its end and
\* no outputs were fetched.
C5_CleanupWaitsForDeletion ==
    (pc = "done" /\ Confirmed("delete")) =>
        /\ ~exists
        /\ Issued("DeleteStack")
        /\ ~IssuedBy("DescribeStacks", "getStackOutputs")
        /\ result = NilErr => remote \in DeletionEnded

\* C6: a declined prompt, whichever it is, ends the run with ErrAbortedByUser
\* and no remote call follows it.
C6_EveryRefusalAborts ==
    \A k \in DOMAIN prompts :
        (pc = "done" /\ ~prompts[k].answer) =>
            /\ result = ErrAbortedByUser
            /\ Len(calls) = prompts[k].at

\* C7: Deploy leaves the monitoring step after ExecuteChangeSet only with the
\* terminal status that the execution produced, that is, the status the
\* stack then has at the service; and it returns from the monitoring after
\* DeleteStack only when the deletion has come to its end.
C7_MonitoringOutlastsTheOperation ==
    /\ (pc \in {"confirmDelete", "outputs"} /\ Issued("ExecuteChangeSet")) =>
           (stack = remote /\ EndsInTerminalMarker(remote))
    /\ (pc = "done" /\ result = NilErr /\ Issued("DeleteStack")) =>
           remote \in DeletionEnded

MonitorReturnedStack ==
    /\ pc \notin {"monitorUpdate", "monitorDelete"}
    /\ polled # <<>>
    /\ stack # NilStack

\* C8: monitorStackUpdate polls again after every status that is not
\* terminal, returns at the first terminal one, and returns the stack of
\* that last poll.
C8_MonitorReturnsFirstTerminal ==
    /\ pc \in {"monitorUpdate", "monitorDelete"} =>
           \A k \in DOMAIN polled : ~EndsInTerminalMarker(polled[k])
    /\ MonitorReturnedStack =>
           /\ stack = polled[Len(polled)]
           /\ EndsInTerminalMarker(stack)
           /\ \A k \in 1..(Len(polled) - 1) : ~EndsInTerminalMarker(polled[k])
    /\ (polled # <<>> /\ ~EndsInTerminalMarker(polled[Len(polled)])) =>
           \/ pc \in {"monitorUpdate", "monitorDelete"}
           \/ pc = "done" /\ result # NilErr /\ stack = NilStack

C8_Witness ==
    /\ MonitorReturnedStack
    /\ Len(polled) > 1
    /\ stack[Len(stack)] = "FAILED"

\* C9: a describe error of the existence check that contains "does not
\* exist" means 'no stack' and leads to the create prompt; any other describe
\* error ends Deploy with an error after that one call and without a prompt.
C9_ExistenceCheckErrors ==
    describeErr # NilErr =>
        IF Contains(describeErr, DoesNotExistText)
            THEN /\ ~exists
                 /\ pc = "confirmCreate" \/ prompts[1].name = "create"
            ELSE /\ pc = "done"
                 /\ result # NilErr
                 /\ result # ErrAbortedByUser
                 /\ Len(calls) = 1
                 /\ prompts = <<>>

C9_Witness ==
    /\ describeErr # NilErr
    /\ ~Contains(describeErr, DoesNotExistText)
    /\ pc = "done"

\* The number of lines the blocks of changes 1..k-1 take, each with the
\* blank line before it.
BlockLength(change) ==
    IF change.action = "Add" THEN 1
    ELSE IF change.replacement = "True"
        THEN IF change.physical # "" THEN 3 ELSE 2
    ELSE 1 + Len(change.details)

RECURSIVE Offset(_, _)
Offset(changes, k) ==
    IF k <= 1 THEN 0
    ELSE Offset(changes, k - 1) + 1 + BlockLength(changes[k - 1])

Header(sign, change) == Line(0, <<sign, change.type, change.id>>)

\* C10: the rendering consists of one block per change, in the order of the
\* change list, each preceded by a blank line and free of blank lines: an
\* Add is its "+" line; a Modify without replacement is its "~" line and one
\* indented "Change:" line per detail, annotated when the detail's recreation
\* is not Never; a Modify with replacement is its "-" line, its "+" line and
\* an indented "Resource:" line when the physical id is known.  The change
\* set of TestPPrintChangeSet renders as that test expects.
C10_RenderingFollowsChangeOrder ==
    pc = "formatted" =>
        LET c == chset.changes
            r == rendered
        IN
        /\ Len(r) = Offset(c, Len(c) + 1)
        /\ \A k \in DOMAIN c :
             LET o == Offset(c, k)
                 ch == c[k]
             IN
             /\ r[o + 1] = BlankLine
             /\ \A j \in 2..(1 + BlockLength(ch)) : r[o + j] # BlankLine
             /\ IF ch.action = "Add"
                   THEN r[o + 2] = Header("+", ch)
                ELSE IF ch.replacement = "True"
                   THEN /\ r[o + 2] = Header("-", ch)
                        /\ r[o + 3] = Header("+", ch)
                        /\ ch.physical # "" =>
                             r[o + 4] = Line(2, <<"Resource:", ch.physical>>)
                ELSE /\ r[o + 2] = Header("~", ch)
                     /\ \A d \in DOMAIN ch.details :
                          LET l == r[o + 2 + d]
                              n == Len(l.words)
                          IN
                          /\ l.indent > 0
                          /\ l.words[1] = "Change:"
                          /\ ch.details[d].recreation = "Never" =>
                               l.words[n] = ch.details[d].causing
                          /\ ch.details[d].recreation = "Conditionally" =>
                               l.words[n] = "(conditional replacement)"
                          /\ ch.details[d].recreation = "Always" =>
                               l.words[n] = "(forces replacement)"
        /\ c = TestChangeSet => r = TestExpect

C10_Witness ==
    /\ pc = "formatted"
    /\ Len(chset.changes) = 2
    /\ chset.changes[1].replacement = "True"
    /\ chset.changes[1].physical # ""
    /\ chset.changes[2].action = "Modify"
    /\ chset.changes[2].replacement = "False"
    /\ Len(chset.changes[2].details) = 1
    /\ chset.changes[2].details[1].recreation = "Always"

\* The change-set polling loop has described the change set at least once.
ChangeSetPolled == csPolls > 0

\* C11: each poll of the change-set loop sleeps and then describes. After a
\* describe error createChangeSet has returned that error and no change set;
\* after CREATE_COMPLETE it has returned the described change set and no
\* error; after FAILED it has returned an error that carries the reported
\* reason; after DELETE_COMPLETE it has returned an error; after any other
\* status the loop is still polling, so nothing else ends it.
C11_PollResolvesEachStatus ==
    ChangeSetPolled =>
        /\ Len(SelectSeq(calls, LAMBDA c : c.api = "DescribeChangeSet"))
              = csPolls
        /\ ~Issued("ExecuteChangeSet") =>
              clock = StartTime + 2 * csPolls
        /\ csResp.err # NilErr =>
              /\ pc = "done"
              /\ chset = NilChset
              /\ \A k \in DOMAIN csResp.err :
                   createErr[Len(createErr) - Len(csResp.err) + k]
                       = csResp.err[k]
              /\ result # NilErr
        /\ (csResp.err = NilErr /\ csResp.status = "CREATE_COMPLETE") =>
              /\ pc # "pollChangeSet"
              /\ chset # NilChset
              /\ chset.status = "CREATE_COMPLETE"
              /\ chset.changes = csResp.changes
              /\ createErr = NilErr
        /\ (csResp.err = NilErr /\ csResp.status = "FAILED") =>
              /\ pc # "pollChangeSet"
              /\ chset = NilChset
              /\ createErr # NilErr
              /\ \A k \in DOMAIN csResp.reason :
                   Contains(createErr, csResp.reason[k])
        /\ (csResp.err = NilErr /\ csResp.status = "DELETE_COMPLETE") =>
              /\ pc = "done"
              /\ chset = NilChset
              /\ createErr # NilErr
              /\ result # NilErr
        /\ (csResp.err = NilErr /\ csResp.status \notin
                {"CREATE_COMPLETE", "FAILED", "DELETE_COMPLETE"}) =>
              /\ pc = "pollChangeSet"
              /\ chset = NilChset
              /\ createErr = NilErr

C11_Witness ==
    /\ csPolls >= 2
    /\ csResp.status = "FAILED"
    /\ csResp.reason = <<"Template error">>
    /\ pc = "done"

\* The statuses a sequence of polls announces when the poll before it gave
\* the status last: every status that differs from its predecessor.
RECURSIVE Announcements(_, _)
Announcements(statuses, last) ==
    IF statuses = <<>> THEN <<>>
    ELSE IF Head(statuses) = last
        THEN Announcements(Tail(statuses), last)
    ELSE <<Head(statuses)>> \o Announcements(Tail(statuses), Head(statuses))

\* The last poll of the monitoring loop failed to fetch the stack events.
EventFetchFailed == pc = "done" /\ Contains(result, "get stack events")

\* The polls of the monitoring loop that ran to their end.
CompletedPolls ==
    IF EventFetchFailed THEN SubSeq(polled, 1, Len(polled) - 1) ELSE polled

EndsInFailureMarker(status) ==
    LET n == Len(status) IN
    \/ n >= 2 /\ status[n] = "FAILED"
    \/ /\ n >= 4
       /\ status[n - 2] = "ROLLBACK"
       /\ status[n - 1] = "IN"
       /\ status[n] = "PROGRESS"

\* The events of all fetched windows, in the order fetched.
RECURSIVE Considered(_)
Considered(windows) ==
    IF windows = <<>> THEN <<>>
    ELSE Head(windows).events \o Considered(Tail(windows))

\* The remote calls of the current monitoring loop: those after the
\* accepted call that started the monitored operation.
MonitorCalls ==
    LET starts == {k \in DOMAIN calls :
                     /\ calls[k].api \in {"ExecuteChangeSet", "DeleteStack"}
                     /\ \A f \in DOMAIN faults : faults[f].at # k}
        entry == IF starts = {} THEN 0
                 ELSE CHOOSE k \in starts : \A j \in starts : j <= k
    IN SubSeq(calls, entry + 1, Len(calls))

\* C13: the events the monitoring loop printed are exactly the fetched
\* ones whose resource status ends in "_FAILED" or "_ROLLBACK_IN_PROGRESS",
\* no event with another resource status is printed, and DescribeStackEvents
\* is called once on every poll whose status differs from the preceding
\* poll's and on no other poll.
C13_OnlyFailuresSurfaced ==
    /\ \A k \in DOMAIN printed : EndsInFailureMarker(printed[k].status)
    /\ printed = SelectSeq(Considered(fetched),
                           LAMBDA e : EndsInFailureMarker(e.status))
    /\ Len(SelectSeq(MonitorCalls,
                     LAMBDA c : c.api = "DescribeStackEvents"))
          = Len(Announcements(polled, Unknown))
    /\ \A w \in DOMAIN fetched :
         /\ fetched[w].poll \in DOMAIN polled
         /\ polled[fetched[w].poll] #
              (IF fetched[w].poll = 1 THEN Unknown
               ELSE polled[fetched[w].poll - 1])

C13_Witness ==
    /\ Len(printed) = 1
    /\ Len(Considered(fetched)) = 2
    /\ Len(polled) > Len(fetched)
    /\ \E k \in DOMAIN events :
         events[k].status = <<"ROLLBACK", "IN", "PROGRESS">>
         /\ \E w \in DOMAIN fetched : \E j \in DOMAIN fetched[w].events :
               fetched[w].events[j] = events[k]

RECURSIVE Sum(_)
Sum(numbers) ==
    IF numbers = <<>> THEN 0 ELSE Head(numbers) + Sum(Tail(numbers))

\* The time of the k-th poll of the current monitoring loop: the sleeps
\* after it lead to the present.
TimeOfPoll(k) == clock - Sum(SubSeq(sleeps, k, Len(sleeps)))

\* The events considered at every transition are exactly those stamped
\* within the window, lower bound included and upper bound excluded; the
\* windows are contiguous from the start time, so no event is considered
\* twice and none stamped between the start time and the last transition
\* is skipped.
WindowsPartitionEvents ==
    /\ \A w \in DOMAIN fetched :
         /\ fetched[w].until = TimeOfPoll(fetched[w].poll)
         /\ fetched[w].from <= fetched[w].until
         /\ fetched[w].events =
              SelectSeq(events, LAMBDA e : /\ fetched[w].from <= e.at
                                           /\ e.at < fetched[w].until)
         /\ w > 1 => fetched[w].from = fetched[w - 1].until
    /\ fetched # <<>> =>
         /\ fetched[1].from = startTime
         /\ \A k \in DOMAIN events :
              (startTime <= events[k].at
                 /\ events[k].at < fetched[Len(fetched)].until) =>
              Cardinality({w \in DOMAIN fetched :
                             \E j \in DOMAIN fetched[w].events :
                                fetched[w].events[j].id = events[k].id}) = 1
    /\ \A k \in DOMAIN events :
         Cardinality({w \in DOMAIN fetched :
                        \E j \in DOMAIN fetched[w].events :
                           fetched[w].events[j].id = events[k].id}) <= 1

\* C14, as stated: the window of every transition starts at the time of
\* the poll immediately before it (the start time for the first poll) and
\* ends at the time of the poll, and the windows partition the events.
C14_WindowFromPreviousPoll ==
    /\ WindowsPartitionEvents
    /\ \A w \in DOMAIN fetched :
         fetched[w].from = IF fetched[w].poll = 1 THEN startTime
                           ELSE TimeOfPoll(fetched[w].poll - 1)

\* C14, amended: the window of every transition starts at the time of the
\* previous poll that observed a transition (the start time handed to the
\* loop for the first one) and ends at the time of the poll, and the
\* windows partition the events.
C14_WindowFromPreviousTransition ==
    /\ WindowsPartitionEvents
    /\ \A w \in DOMAIN fetched :
         fetched[w].from = IF w = 1 THEN startTime
                           ELSE TimeOfPoll(fetched[w - 1].poll)

C14_Witness ==
    /\ Len(fetched) = 2
    /\ fetched[2].poll > fetched[1].poll + 1
    /\ \E j \in DOMAIN fetched[1].events :
         fetched[1].events[j].at = fetched[1].from
    /\ \E j \in DOMAIN fetched[2].events :
         fetched[2].events[j].at = fetched[2].from
    /\ Len(events) = 3

\* The number of consecutive polls, up to the k-th, with the k-th's status.
RECURSIVE RunLength(_)
RunLength(k) ==
    IF k = 1 \/ polled[k - 1] # polled[k] THEN 1 ELSE 1 + RunLength(k - 1)

\* C15: the sleep after a poll is 2 units when the poll is among the first
\* 5 polls of a run of polls with one status, the poll that observed the
\* transition to it included, and 5 units for every later poll of the run;
\* the count starts again at every transition, the first poll included.
C15_ShortThenLongSleeps ==
    /\ Len(sleeps) <= Len(polled)
    /\ \A k \in DOMAIN sleeps :
         sleeps[k] = IF RunLength(k) <= 5 THEN 2 ELSE 5

C15_Witness ==
    /\ Len(sleeps) = 7
    /\ sleeps[5] = 2
    /\ sleeps[6] = 5
    /\ sleeps[7] = 2
    /\ polled[7] # polled[6]

\* The template diff step has begun: its own existence check was issued.
DiffStarted == IssuedBy("DescribeStacks", "TemplateDiff")

\* Deploy returned an error of the template diff step.
DiffFailed ==
    pc = "done" /\ result # NilErr /\ result[1] = "template diff"

\* C18: the diff step is taken exactly when the existence check found the
\* stack and the diff was requested; all its calls precede CreateChangeSet;
\* and a remote call of the diff step that fails ends Deploy with the diff
\* step's error before any mutating call.
C18_DiffOnlyForExistingStack ==
    /\ DiffStarted => exists /\ showDiff
    /\ Issued("GetTemplate") => DiffStarted
    /\ (exists /\ showDiff /\ pc \notin {"stackExists", "templateDiff"})
          => DiffStarted
    /\ \A k \in DOMAIN calls : calls[k].api = "CreateChangeSet" =>
         \A j \in DOMAIN calls : calls[j].from = "TemplateDiff" => j < k
    /\ \A f \in DOMAIN faults :
         (calls[faults[f].at].from = "TemplateDiff" /\ ~faults[f].empty)
            => DiffFailed
    /\ DiffFailed =>
         /\ calls[Len(calls)].from = "TemplateDiff"
         /\ \A k \in DOMAIN calls : calls[k].api \notin MutatingCalls

C18_Witness ==
    /\ Issued("GetTemplate")
    /\ Issued("CreateChangeSet")
    /\ faults = <<>>

\* No remote call failed or answered without a stack, except that the
\* existence check may have been told that the stack does not exist.
EveryCallSucceeded ==
    \A f \in DOMAIN faults :
        /\ faults[f].at = 1
        /\ Contains(faults[f].err, DoesNotExistText)

\* No prompt that was shown was declined.
EveryPromptConfirmed == \A k \in DOMAIN prompts : prompts[k].answer

\* C19: a run that executed its change set, in which every remote call
\* succeeded and no prompt was declined, returns nil whatever terminal
\* status the monitoring returned, a failure or a rollback included, and
\* its last remote call fetched the stack outputs unless the delete prompt
\* was confirmed.
C19_ResultIgnoresTerminalStatus ==
    (/\ pc = "done"
     /\ Issued("ExecuteChangeSet")
     /\ EveryCallSucceeded
     /\ EveryPromptConfirmed) =>
        /\ result = NilErr
        /\ EndsInTerminalMarker(stack)
        /\ ~Confirmed("delete") =>
              calls[Len(calls)].from = "getStackOutputs"
        /\ Confirmed("delete") =>
              ~IssuedBy("DescribeStacks", "getStackOutputs")

C19_Witness ==
    /\ pc = "done"
    /\ EveryCallSucceeded
    /\ EveryPromptConfirmed
    /\ stack = UpdateRollbackFailed
    /\ result = NilErr
    /\ calls[Len(calls)].from = "getStackOutputs"

\* The positions in the call log of the calls of one API.
CallsOf(api) == {k \in DOMAIN calls : calls[k].api = api}

\* C20 (the calls): at most one CreateChangeSet, one ExecuteChangeSet and
\* one DeleteStack are issued, in that order; ExecuteChangeSet names the
\* change set that the CreateChangeSet of the run named; and DeleteStack is
\* issued only in a run that found no stack, whose ExecuteChangeSet was
\* accepted and whose delete prompt was confirmed.
OneOfEachInOrder ==
    /\ \A api \in MutatingCalls : Cardinality(CallsOf(api)) <= 1
    /\ \A e \in CallsOf("ExecuteChangeSet") :
         \E c \in CallsOf("CreateChangeSet") :
            /\ c < e
            /\ calls[e].name = calls[c].name
            /\ calls[e].name # "StackName"
    /\ \A d \in CallsOf("DeleteStack") :
         /\ ~exists
         /\ Confirmed("delete")
         /\ \E e \in CallsOf("ExecuteChangeSet") :
              /\ e < d
              /\ \A f \in DOMAIN faults : faults[f].at # e

\* C20 (the step that deletes): DeleteStack is issued right after a
\* monitoring loop that returned exactly ROLLBACK_COMPLETE.
DeleteOnlyAfterRollbackComplete ==
    (CallsOf("DeleteStack") = {} /\ CallsOf("DeleteStack")' # {}) =>
        /\ stack = RollbackComplete
        /\ polled # <<>>
        /\ polled[Len(polled)] = RollbackComplete

\* C20: both of the above, in every state and at every step of a run.
C20_OneChangeSetOneDelete ==
    []OneOfEachInOrder /\ [][DeleteOnlyAfterRollbackComplete]_vars

C20_Witness ==
    /\ Issued("DeleteStack")
    /\ pc = "done"
    /\ result = NilErr

\* The failed call is one of the two that Deploy goes on after: the
\* existence check told that the stack does not exist, or CreateChangeSet
\* told that there are no changes.
Tolerated(fault) ==
    \/ /\ calls[fault.at].from = "stackExists"
       /\ Contains(fault.err, DoesNotExistText)
    \/ /\ calls[fault.at].api = "CreateChangeSet"
       /\ Contains(fault.err, NoChangesText)

\* The remote calls that returned an error Deploy does not go on after.
Failures ==
    {f \in DOMAIN faults : ~faults[f].empty /\ ~Tolerated(faults[f])}

\* Once a remote call has returned an error that is not tolerated, it is
\* the last remote call, no prompt follows it, and Deploy has returned a
\* non-nil error.
NoCallAfterFailure ==
    \A f \in Failures :
        /\ faults[f].at = Len(calls)
        /\ \A k \in DOMAIN prompts : prompts[k].at < faults[f].at
        /\ pc = "done"
        /\ result # NilErr

\* The pairs of calls that repeat an API from the same place of the code.
Repeats ==
    {p \in (DOMAIN calls) \X (DOMAIN calls) :
        /\ p[1] < p[2]
        /\ calls[p[1]].api = calls[p[2]].api
        /\ calls[p[1]].from = calls[p[2]].from}

\* C16, as stated: no call or prompt follows a failed call, and the only
\* calls repeated are DescribeChangeSet in the change-set loop and
\* DescribeStacks in the monitoring loop, each after a successful response.
C16_OnlyPollsRepeat ==
    /\ NoCallAfterFailure
    /\ \A p \in Repeats :
         /\ \/ /\ calls[p[1]].api = "DescribeChangeSet"
               /\ calls[p[1]].from = "createChangeSet"
            \/ /\ calls[p[1]].api = "DescribeStacks"
               /\ calls[p[1]].from = "monitorStackUpdate"
         /\ \A f \in Failures : faults[f].at # p[1]

\* C16, amended: no call or prompt follows a failed call, and the only
\* calls repeated are DescribeChangeSet in the change-set loop, and
\* DescribeStacks and the DescribeStackEvents of every observed transition
\* in the monitoring loop, each after a successful response.
C16_OnlyPollsAndEventFetchesRepeat ==
    /\ NoCallAfterFailure
    /\ \A p \in Repeats :
         /\ \/ /\ calls[p[1]].api = "DescribeChangeSet"
               /\ calls[p[1]].from = "createChangeSet"
            \/ /\ calls[p[1]].api \in {"DescribeStacks",
                                        "DescribeStackEvents"}
               /\ calls[p[1]].from = "monitorStackUpdate"
         /\ \A f \in Failures : faults[f].at # p[1]

C16_Witness ==
    /\ Cardinality(CallsOf("DescribeStackEvents")) = 2
    /\ Cardinality(CallsOf("DescribeChangeSet")) = 2
    /\ prompts # <<>>
    /\ \E f \in Failures :
         calls[faults[f].at].api = "DescribeStackEvents"

\* Deploy has returned, or has crashed.
Terminated == pc \in {"done", "panic"}

\* A poll that is answered with neither an error nor an end is followed by
\* another one, however many polls went before.
PollsAgain ==
    /\ (/\ pc = "pollChangeSet"
        /\ csPolls' # csPolls
        /\ csResp'.err = NilErr
        /\ csResp'.status \notin
              {"CREATE_COMPLETE", "FAILED", "DELETE_COMPLETE"})
          => pc' = "pollChangeSet"
    /\ (/\ pc \in {"monitorUpdate", "monitorDelete"}
        /\ polls' # polls
        /\ faults' = faults
        /\ ~EndsInTerminalMarker(polled'[Len(polled')]))
          => pc' = pc

\* C17: when the change set and the stack report an end (or a describe call
\* fails) within the polls followed, every run of Deploy terminates; and a
\* poll that reports no end is always followed by another poll, so that
\* nothing but the service's answers bounds the loops.
C17_TerminatesWhenServiceSettles ==
    <>Terminated /\ [][PollsAgain]_vars

C17_Witness ==
    /\ pc = "done"
    /\ csPolls = budget
    /\ polls = budget
    /\ Issued("DeleteStack")

\* The remote calls that succeeded and described a number of stacks other
\* than one.
EmptyAnswers == {f \in DOMAIN faults : faults[f].empty}

\* C21: describeStack never returns a nil stack with a nil error. After an
\* existence check whose DescribeStacks succeeded without describing exactly
\* one stack, describeStack has returned a non-nil error and stackExists has
\* not reported true; and monitorStackUpdate never returns its "unexpected
\* nil stack" error.
C21_NoNilStackWithoutError ==
    /\ \A f \in EmptyAnswers :
         calls[faults[f].at].from = "stackExists" =>
            /\ describeErr # NilErr
            /\ ~exists
    /\ ~Contains(result, "unexpected nil stack")

====
